---------------------------- MODULE Spec2Model ----------------------------
(***************************************************************************)
(* Timing-based cache geometry detection (cache.c).                        *)
(*                                                                         *)
(* The model covers the four entry points of cache.c:                      *)
(*   get_cache_line          growth-sweep line estimator                   *)
(*   detect_cache_line_size  fixed-stride line estimator                   *)
(*   detect_cache_level      capacity estimator of one cache level         *)
(*   get_all_cache_sizes     the batch query calling the two above         *)
(* The clock and the allocator are the environment: every timed traversal  *)
(* returns some value of a small set of times, every allocation may fail.  *)
(* A C array timingData[0..n-1] is the sequence timingData[1..n] here, so  *)
(* the C element timingData[i] is TD(seq, i), the element seq[i + 1].      *)
(***************************************************************************)
EXTENDS Integers, Sequences, FiniteSets, TLC

(***************************************************************************)
(* Bounds of the model.                                                    *)
(***************************************************************************)
\* detect_cache_level is entered with maxSize = minSize * 2^d, d <= MaxSpan
MaxSpan == 3
\* get_cache_line is entered with 2 <= max <= MaxAlign
MaxAlign == 8

\* iterate_through_data is followed for MaxTouch iterations from each start
MaxTouch == 3
\* the counting loop of detect_cache_level is followed for MaxCount rounds
MaxCount == 40

\* exponents of the sizes detect_cache_level is entered with: the powers of
\* two below 2^30, so that currentSize * 2 stays below 2^31 and never wraps
SizeExps == 0 .. 29
\* a caller range that is no pair of powers of two, and an inverted one
OddRanges == {<<3, 12>>, <<6, 6>>, <<8, 2>>, <<4, 1>>}
\* elapsed times a traversal can report
Times == {0, 1, 3, 4}
\* the same, with one time above 9001 clock ticks, for get_cache_line
SweepTimes == {0, 1, 3, 4, 9002}
\* elapsed times of the fixed-stride estimator called on its own
StrideTimes == {0, 10, 40}
\* elapsed times inside the batch query
BatchTimes == {0, 1}
\* the stride detect_cache_level is entered with on its own
LevelStrides == {64}
\* buffer sizes iterate_through_data is entered with; 3 and 2^27 fail an assertion
TraverseSizes == {1, 2, 3, 64, 65536, 1048576, 67108864, 134217728}
\* strides iterate_through_data is entered with
TraverseStrides == {1, 3, 64, 65, 256, 65537, 2147483647}
\* iterations at which the traversal loop is looked at again
IterStarts == {65535, 67108864, 134217726}
\* exponents of the sizes the counting loop is entered with in 32-bit arithmetic
WideExps == 0 .. 31

(***************************************************************************)
(* Program constants.                                                      *)
(***************************************************************************)
\* static const unsigned int steps = 128*1024*1024
steps == 134217728
\* unsigned int is 32 bits wide
UIntBits == 32
\* timing_t biggestJumpAmount = -9001
InitialJumpAmount == -9001
\* unsigned int cacheLineSize = 64 / jumpStride = 64 / return 64
DefaultLine == 64
\* detect_cache_line_size(1 * 1024 * 1024)
LineProbeSize == 1048576
candidateStrides == <<32, 64, 128, 256>>
numCandidates == Len(candidateStrides)
\* the three ranges of get_all_cache_sizes: L1, L2, L3
LevelRange == << <<16384, 524288>>, <<262144, 16777216>>, <<4194304, 67108864>> >>

VARIABLES
    entry,        \* the entry point this run calls
    pc,           \* position in the running function
    phase,        \* get_all_cache_sizes: 0 line size, 1..3 the level being detected
    minSize,      \* detect_cache_level: minSize
    maxSize,      \* maxSize (detect_cache_level, detect_cache_line_size), max (get_cache_line)
    stride,       \* stride argument
    currentSize,  \* currentSize / currentAlignment
    i,            \* loop index
    numTests,     \* numTests / timingDataLength
    timingData,   \* the samples recorded so far
    tdState,      \* the sample array: "none", "live", "null" (malloc failed), "freed"
    targetArray,  \* the working buffer: "none", "live", "null", "freed"
    jumpLocation, \* jumpLocation / locationOfBiggestJumpAmount
    result,       \* return value of the last function that returned
    allocFailed,  \* an allocation failed in the running call
    nullUse,      \* a null pointer was dereferenced or written through
    cacheLine,    \* get_all_cache_sizes: cacheLine
    results,      \* get_all_cache_sizes: results[0..3]; -1 is not yet written
    callLog,      \* the calls entered and the values get_all_cache_sizes got back, in order
    buffers,      \* detect_cache_level: the sizes of the working buffers malloc'ed and not freed
    stepLog,      \* detect_cache_level: what the current sweep step has done, in order
    staleRead,    \* timingData was read after free(timingData)
    touched       \* iterate_through_data: the index of the last byte touched, -1 before one

vars == <<entry, pc, phase, minSize, maxSize, stride, currentSize, i, numTests,
          timingData, tdState, targetArray, jumpLocation, result, allocFailed,
          nullUse, cacheLine, results, callLog, buffers, stepLog, staleRead,
          touched>>

\* the part of the state get_all_cache_sizes owns
batch == <<entry, phase, cacheLine, results>>

\* the records kept of buffers, sweep steps, reads and touches
ghost == <<buffers, stepLog, staleRead, touched>>

(***************************************************************************)
(* fast_math.h: is_power_of_two and int_pow.                               *)
(***************************************************************************)
RECURSIVE Pow2(_)
Pow2(e) == IF e = 0 THEN 1 ELSE 2 * Pow2(e - 1)

is_power_of_two(n) == \E e \in 0 .. 30 : n = Pow2(e)

\* 2^exponent in unsigned arithmetic: 0 once the exponent reaches the width
int_pow(base, exponent) ==
    IF base = 2 /\ exponent >= UIntBits THEN 0 ELSE base ^ exponent

\* x - 1 on unsigned int is 2^32 - 1 at x = 0.  An exponent is only used by
\* int_pow(2, ...), so 2^32 - 1 is kept as UIntBits: any exponent >= 32
\* gives the same power, 0.
DecExponent(x) == IF x = 0 THEN UIntBits ELSE x - 1

TD(seq, k) == seq[k + 1]

\* the elapsed times the clock can report in this run
Samples ==
    CASE entry = "all"    -> BatchTimes
      [] entry = "line"   -> SweepTimes
      [] entry = "stride" -> StrideTimes
      [] OTHER            -> Times

\* iterate_through_data: the two assertions hold for this dataSize
TraversalAsserts(dataSize) == is_power_of_two(dataSize) /\ dataSize < steps

(***************************************************************************)
(* detect_cache_level                                                      *)
(***************************************************************************)
\* the comparison with >=: on a tie the later jump wins
LevelJumpNotSmaller(delta, biggestJump) == delta >= biggestJump

\* if (delta > biggestJump)
LevelJumpBigger(delta, biggestJump) == delta > biggestJump

\* the max-delta loop from index k on: the jump location it ends with
RECURSIVE LevelScanFrom(_, _, _, _, _)
LevelScanFrom(td, n, k, biggestJump, location) ==
    IF k >= n THEN location
    ELSE LET delta == TD(td, k) - TD(td, k - 1) IN
         IF LevelJumpBigger(delta, biggestJump)
         THEN LevelScanFrom(td, n, k + 1, delta, k)
         ELSE LevelScanFrom(td, n, k + 1, biggestJump, location)

\* the loop started at i = 2: the first delta is never looked at
LevelScanSkipFirst(td, n) == LevelScanFrom(td, n, 2, 0, 0)

\* biggestJump = 0, jumpLocation = 0, for (i = 1; i < numTests; i++)
LevelScan(td, n) == LevelScanFrom(td, n, 1, 0, 0)

\* size = minSize; for (k = 1; k < location; k++) size *= 2;
RECURSIVE SizeBefore(_, _)
SizeBefore(size, location) ==
    IF location <= 1 THEN size ELSE SizeBefore(size * 2, location - 1)

\* timingData[k] > timingData[0] * 1.5
ExceedsBaseline(td, k) == 2 * TD(td, k) > 3 * TD(td, 0)

\* the last resort taken from the wrong end of the range: minSize / 2
ThresholdEstimateLow(td, n, lo, hi) ==
    IF n >= 2 /\ TD(td, 0) > 0 /\ \E k \in 1 .. n - 1 : ExceedsBaseline(td, k)
    THEN LET first == CHOOSE k \in 1 .. n - 1 :
                          /\ ExceedsBaseline(td, k)
                          /\ \A j \in 1 .. k - 1 : ~ExceedsBaseline(td, j)
         IN SizeBefore(lo, first)
    ELSE lo \div 2

\* the 50% scan and the last resort, on the values td the reads return
ThresholdEstimate(td, n, lo, hi) ==
    IF n >= 2 /\ TD(td, 0) > 0 /\ \E k \in 1 .. n - 1 : ExceedsBaseline(td, k)
    THEN LET first == CHOOSE k \in 1 .. n - 1 :
                          /\ ExceedsBaseline(td, k)
                          /\ \A j \in 1 .. k - 1 : ~ExceedsBaseline(td, j)
         IN SizeBefore(lo, first)
    ELSE hi \div 2

\* what reading the n samples returns: the samples while the array is live,
\* anything once it has been freed
ReadSamples(n) ==
    IF tdState = "live" THEN {timingData} ELSE [1 .. n -> Samples]

\* the events of one sweep step
StepMalloc(size) == <<"malloc", size>>

StepWarmUp(dataSize, buffer) == <<"warm-up", dataSize, buffer>>

StepMeasure(dataSize, buffer, index) == <<"measure", dataSize, buffer, index>>

StepFree(size) == <<"free", size>>

LevelEnter ==
    /\ pc = "lvl_enter"
    /\ numTests' = 0
    /\ currentSize' = minSize
    /\ i' = 0
    /\ timingData' = <<>>
    /\ tdState' = "none"
    /\ targetArray' = "none"
    /\ jumpLocation' = 0
    /\ allocFailed' = FALSE
    /\ pc' = "lvl_count"
    /\ callLog' = Append(callLog, <<"detect_cache_level", minSize, maxSize, stride>>)
    /\ stepLog' = <<>>
    /\ UNCHANGED <<buffers, staleRead, touched, batch, minSize, maxSize, stride, result, nullUse>>

\* for (currentSize = minSize; currentSize <= maxSize; currentSize *= 2) numTests++
LevelCount ==
    /\ pc = "lvl_count"
    /\ currentSize <= maxSize
    /\ numTests' = numTests + 1
    /\ currentSize' = currentSize * 2
    /\ UNCHANGED <<ghost, batch, callLog, pc, minSize, maxSize, stride, i, timingData, tdState,
                   targetArray, jumpLocation, result, allocFailed, nullUse>>

LevelCountDone ==
    /\ pc = "lvl_count"
    /\ ~(currentSize <= maxSize)
    /\ pc' = "lvl_malloc"
    /\ UNCHANGED <<ghost, batch, callLog, minSize, maxSize, stride, currentSize, i, numTests,
                   timingData, tdState, targetArray, jumpLocation, result,
                   allocFailed, nullUse>>

\* timingData = malloc(...) succeeds; i = 0, currentSize = minSize
LevelAllocSamples ==
    /\ pc = "lvl_malloc"
    /\ tdState' = "live"
    /\ i' = 0
    /\ currentSize' = minSize
    /\ pc' = "lvl_sweep"
    /\ UNCHANGED <<ghost, batch, callLog, minSize, maxSize, stride, numTests, timingData,
                   targetArray, jumpLocation, result, allocFailed, nullUse>>

\* timingData = malloc(...) fails: return 0
LevelAllocSamplesFail ==
    /\ pc = "lvl_malloc"
    /\ tdState' = "null"
    /\ allocFailed' = TRUE
    /\ result' = 0
    /\ pc' = "lvl_ret"
    /\ UNCHANGED <<ghost, batch, callLog, minSize, maxSize, stride, currentSize, i, numTests,
                   timingData, targetArray, jumpLocation, nullUse>>

\* char* targetArray = malloc(currentSize) succeeds
LevelAllocBuffer ==
    /\ pc = "lvl_sweep"
    /\ currentSize <= maxSize
    /\ targetArray' = "live"
    /\ pc' = "lvl_warm1"
    /\ buffers' = Append(buffers, currentSize)
    /\ stepLog' = <<StepMalloc(currentSize)>>
    /\ UNCHANGED <<staleRead, touched, batch, callLog, minSize, maxSize, stride, currentSize, i, numTests,
                   timingData, tdState, jumpLocation, result, allocFailed, nullUse>>

\* the failure path without free(timingData)
LevelAllocBufferFailLeak ==
    /\ pc = "lvl_sweep"
    /\ currentSize <= maxSize
    /\ targetArray' = "null"
    /\ allocFailed' = TRUE
    /\ result' = 0
    /\ pc' = "lvl_ret"
    /\ UNCHANGED <<ghost, batch, callLog, minSize, maxSize, stride, currentSize, i,
                   numTests, timingData, tdState, jumpLocation, nullUse>>

\* malloc(currentSize) fails: free(timingData); return 0
LevelAllocBufferFail ==
    /\ pc = "lvl_sweep"
    /\ currentSize <= maxSize
    /\ targetArray' = "null"
    /\ tdState' = "freed"
    /\ allocFailed' = TRUE
    /\ result' = 0
    /\ pc' = "lvl_ret"
    /\ UNCHANGED <<ghost, batch, callLog, minSize, maxSize, stride, currentSize, i, numTests,
                   timingData, jumpLocation, nullUse>>

\* a discarded timed_iteration(targetArray, currentSize, stride)
LevelWarmUp(here, next) ==
    /\ pc = here
    /\ pc' = IF TraversalAsserts(currentSize) THEN next ELSE "aborted"
    /\ stepLog' = Append(stepLog, StepWarmUp(currentSize, targetArray))
    /\ UNCHANGED <<buffers, staleRead, touched, batch, callLog, minSize, maxSize, stride, currentSize, i, numTests,
                   timingData, tdState, targetArray, jumpLocation, result,
                   allocFailed, nullUse>>

LevelWarmUp1 == LevelWarmUp("lvl_warm1", "lvl_warm2")

LevelWarmUp2 == LevelWarmUp("lvl_warm2", "lvl_measure")

\* timingData[i] = timed_iteration(targetArray, currentSize, stride)
LevelMeasure ==
    /\ pc = "lvl_measure"
    /\ IF TraversalAsserts(currentSize)
       THEN /\ \E t \in Samples : timingData' = Append(timingData, t)
            /\ pc' = "lvl_freebuf"
       ELSE /\ pc' = "aborted"
            /\ UNCHANGED timingData
    /\ stepLog' = Append(stepLog, StepMeasure(currentSize, targetArray, Len(timingData)))
    /\ UNCHANGED <<buffers, staleRead, touched, batch, callLog, minSize, maxSize, stride, currentSize, i, numTests,
                   tdState, targetArray, jumpLocation, result, allocFailed, nullUse>>

\* the step ended without free(targetArray)
LevelFreeBufferLeak ==
    /\ pc = "lvl_freebuf"
    /\ currentSize' = currentSize * 2
    /\ i' = i + 1
    /\ pc' = "lvl_sweep"
    /\ stepLog' = Append(stepLog, StepFree(currentSize))
    /\ UNCHANGED <<buffers, staleRead, touched, batch, callLog, minSize, maxSize,
                   stride, numTests, timingData, tdState, targetArray,
                   jumpLocation, result, allocFailed, nullUse>>

\* free(targetArray); currentSize *= 2, i++
LevelFreeBuffer ==
    /\ pc = "lvl_freebuf"
    /\ targetArray' = "freed"
    /\ currentSize' = currentSize * 2
    /\ i' = i + 1
    /\ pc' = "lvl_sweep"
    /\ buffers' = SubSeq(buffers, 1, Len(buffers) - 1)
    /\ stepLog' = Append(stepLog, StepFree(currentSize))
    /\ UNCHANGED <<staleRead, touched, batch, callLog, minSize, maxSize, stride, numTests, timingData, tdState,
                   jumpLocation, result, allocFailed, nullUse>>

\* the sweep is over: find the biggest jump in timing
LevelFindJump ==
    /\ pc = "lvl_sweep"
    /\ ~(currentSize <= maxSize)
    /\ \E td \in ReadSamples(numTests) : jumpLocation' = LevelScan(td, numTests)
    /\ pc' = "lvl_freetd"
    /\ staleRead' = (staleRead \/ (tdState = "freed" /\ numTests >= 2))
    /\ UNCHANGED <<buffers, stepLog, touched, batch, callLog, minSize, maxSize, stride, currentSize, i, numTests,
                   timingData, tdState, targetArray, result, allocFailed, nullUse>>

\* free(timingData)
LevelFreeSamples ==
    /\ pc = "lvl_freetd"
    /\ tdState' = "freed"
    /\ pc' = "lvl_pick"
    /\ UNCHANGED <<ghost, batch, callLog, minSize, maxSize, stride, currentSize, i, numTests,
                   timingData, targetArray, jumpLocation, result, allocFailed,
                   nullUse>>

\* if (jumpLocation > 0) return the size before the jump
LevelReturnJump ==
    /\ pc = "lvl_pick"
    /\ jumpLocation > 0
    /\ result' = SizeBefore(minSize, jumpLocation)
    /\ pc' = "lvl_ret"
    /\ UNCHANGED <<ghost, batch, callLog, minSize, maxSize, stride, currentSize, i, numTests,
                   timingData, tdState, targetArray, jumpLocation, allocFailed,
                   nullUse>>

\* no jump: the 50% scan over timingData, else return maxSize / 2
LevelReturnEstimate ==
    /\ pc = "lvl_pick"
    /\ ~(jumpLocation > 0)
    /\ IF numTests >= 2
       THEN \E td \in ReadSamples(numTests) :
                result' = ThresholdEstimate(td, numTests, minSize, maxSize)
       ELSE result' = maxSize \div 2
    /\ pc' = "lvl_ret"
    /\ staleRead' = (staleRead \/ (tdState = "freed" /\ numTests >= 2))
    /\ UNCHANGED <<buffers, stepLog, touched, batch, callLog, minSize, maxSize, stride, currentSize, i, numTests,
                   timingData, tdState, targetArray, jumpLocation, allocFailed,
                   nullUse>>

LevelNext ==
    \/ LevelEnter
    \/ LevelCount
    \/ LevelCountDone
    \/ LevelAllocSamples
    \/ LevelAllocSamplesFail
    \/ LevelAllocBuffer
    \/ LevelAllocBufferFail
    \/ LevelWarmUp1
    \/ LevelWarmUp2
    \/ LevelMeasure
    \/ LevelFreeBuffer
    \/ LevelFindJump
    \/ LevelFreeSamples
    \/ LevelReturnJump
    \/ LevelReturnEstimate

(***************************************************************************)
(* detect_cache_line_size: the fixed-stride line estimator                 *)
(***************************************************************************)
\* timing_t is clock_t (integer arithmetic) or, under PLATFORM_MACOS, double
Builds == {"clock_t", "double"}

Abs(x) == IF x < 0 THEN -x ELSE x

\* C integer division, truncating towards zero (b > 0)
TruncDiv(a, b) == IF a >= 0 THEN a \div b ELSE -((-a) \div b)

\* ratioToLinear = |relativeJump - 1.0| as the fraction <<numerator, denominator>>,
\* relativeJump = (timeAtLargerStride - timeAtSmallerStride) / timeAtSmallerStride
RatioToLinear(build, smaller, larger) ==
    IF build = "clock_t"
    THEN <<Abs(TruncDiv(larger - smaller, smaller) - 1), 1>>
    ELSE <<Abs(larger - 2 * smaller), smaller>>

FracLess(a, b) == a[1] * b[2] < b[1] * a[2]

\* the relative-jump loop from index k on: the cacheLineSize it ends with
RECURSIVE RelativePassFrom(_, _, _, _, _)
RelativePassFrom(build, t, k, biggestJump, line) ==
    IF k >= numCandidates THEN line
    ELSE IF TD(t, k - 1) > 0
         THEN LET ratio == RatioToLinear(build, TD(t, k - 1), TD(t, k)) IN
              IF FracLess(ratio, biggestJump) \/ biggestJump[1] = 0
              THEN RelativePassFrom(build, t, k + 1, ratio, TD(candidateStrides, k - 1))
              ELSE RelativePassFrom(build, t, k + 1, biggestJump, line)
         ELSE RelativePassFrom(build, t, k + 1, biggestJump, line)

\* biggestJump = 0, cacheLineSize = 64, for (i = 1; i < numCandidates; i++)
RelativePass(build, t) == RelativePassFrom(build, t, 1, <<0, 1>>, DefaultLine)

\* the raw-delta loop from index k on: <<maxAbsJump, jumpStride>> at its end
RECURSIVE AbsPassFrom(_, _, _, _)
AbsPassFrom(t, k, maxAbsJump, jumpStride) ==
    IF k >= numCandidates THEN <<maxAbsJump, jumpStride>>
    ELSE LET absJump == TD(t, k) - TD(t, k - 1) IN
         IF absJump > maxAbsJump
         THEN AbsPassFrom(t, k + 1, absJump, TD(candidateStrides, k - 1))
         ELSE AbsPassFrom(t, k + 1, maxAbsJump, jumpStride)

\* maxAbsJump = 0, jumpStride = 64, for (i = 1; i < numCandidates; i++)
AbsPass(t) == AbsPassFrom(t, 1, 0, DefaultLine)

\* the raw-delta pass only consulted when the relative pass kept the default
LineFromTimingsRelativeFirst(build, t) ==
    LET cacheLineSize == RelativePass(build, t)
        jump == AbsPass(t)
    IN IF jump[1] > 0 /\ cacheLineSize = DefaultLine THEN jump[2] ELSE cacheLineSize

\* cacheLineSize of the first pass; if (maxAbsJump > 0) cacheLineSize = jumpStride
LineFromTimings(build, t) ==
    LET cacheLineSize == RelativePass(build, t)
        jump == AbsPass(t)
    IN IF jump[1] > 0 THEN jump[2] ELSE cacheLineSize

\* char* targetArray = malloc(maxSize) succeeds
StrideAlloc ==
    /\ pc = "dls_enter"
    /\ targetArray' = "live"
    /\ tdState' = "live"
    /\ timingData' = <<>>
    /\ i' = 0
    /\ allocFailed' = FALSE
    /\ pc' = "dls_warm"
    /\ callLog' = Append(callLog, <<"detect_cache_line_size", maxSize>>)
    /\ UNCHANGED <<ghost, batch, minSize, maxSize, stride, currentSize, numTests,
                   jumpLocation, result, nullUse>>

\* malloc(maxSize) fails: return 64
StrideAllocFail ==
    /\ pc = "dls_enter"
    /\ targetArray' = "null"
    /\ tdState' = "live"
    /\ timingData' = <<>>
    /\ allocFailed' = TRUE
    /\ result' = DefaultLine
    /\ pc' = "dls_ret"
    /\ callLog' = Append(callLog, <<"detect_cache_line_size", maxSize>>)
    /\ UNCHANGED <<ghost, batch, minSize, maxSize, stride, currentSize, i, numTests,
                   jumpLocation, nullUse>>

\* stride = candidateStrides[i]; the warm-up timed_iteration
StrideWarmUp ==
    /\ pc = "dls_warm"
    /\ stride' = TD(candidateStrides, i)
    /\ pc' = IF TraversalAsserts(maxSize) THEN "dls_measure" ELSE "aborted"
    /\ UNCHANGED <<ghost, batch, callLog, minSize, maxSize, currentSize, i, numTests, timingData,
                   tdState, targetArray, jumpLocation, result, allocFailed, nullUse>>

\* timings[i] = timed_iteration(targetArray, maxSize, stride); i++
StrideMeasure ==
    /\ pc = "dls_measure"
    /\ \E t \in Samples : timingData' = Append(timingData, t)
    /\ i' = i + 1
    /\ pc' = IF i + 1 < numCandidates THEN "dls_warm" ELSE "dls_free"
    /\ UNCHANGED <<ghost, batch, callLog, minSize, maxSize, stride, currentSize, numTests, tdState,
                   targetArray, jumpLocation, result, allocFailed, nullUse>>

\* free(targetArray)
StrideFree ==
    /\ pc = "dls_free"
    /\ targetArray' = "freed"
    /\ pc' = "dls_pick"
    /\ UNCHANGED <<ghost, batch, callLog, minSize, maxSize, stride, currentSize, i, numTests,
                   timingData, tdState, jumpLocation, result, allocFailed, nullUse>>

\* the two passes over timings, return cacheLineSize
StrideReturn ==
    /\ pc = "dls_pick"
    /\ \E build \in Builds : result' = LineFromTimings(build, timingData)
    /\ pc' = "dls_ret"
    /\ UNCHANGED <<ghost, batch, callLog, minSize, maxSize, stride, currentSize, i, numTests,
                   timingData, tdState, targetArray, jumpLocation, allocFailed,
                   nullUse>>

StrideNext ==
    \/ StrideAlloc
    \/ StrideAllocFail
    \/ StrideWarmUp
    \/ StrideMeasure
    \/ StrideFree
    \/ StrideReturn

(***************************************************************************)
(* get_cache_line: the growth-sweep line estimator                         *)
(***************************************************************************)
\* for (size = 0, currentAlignment = 1; currentAlignment < maxAlignment;
\*      ++size, currentAlignment *= 2);
RECURSIVE SizeRequiredFrom(_, _, _)
SizeRequiredFrom(size, currentAlignment, maxAlignment) ==
    IF currentAlignment < maxAlignment
    THEN SizeRequiredFrom(size + 1, currentAlignment * 2, maxAlignment)
    ELSE size

determine_size_of_timing_data_required(maxAlignment) ==
    SizeRequiredFrom(0, 1, maxAlignment)

\* if (delta > biggestJumpAmount)
LineJumpBigger(delta, biggestJumpAmount) == delta > biggestJumpAmount

\* the biggest-jump loop from index k on: the location it ends with
RECURSIVE LineScanFrom(_, _, _, _, _)
LineScanFrom(td, n, k, biggestJumpAmount, location) ==
    IF k >= n THEN location
    ELSE LET delta == TD(td, k) - TD(td, k - 1) IN
         IF LineJumpBigger(delta, biggestJumpAmount)
         THEN LineScanFrom(td, n, k + 1, delta, k)
         ELSE LineScanFrom(td, n, k + 1, biggestJumpAmount, location)

\* biggestJumpAmount = -9001, locationOfBiggestJumpAmount = 0
LineScan(td, n) == LineScanFrom(td, n, 1, InitialJumpAmount, 0)

\* return int_pow(2, locationOfBiggestJumpAmount - 1)
LineSizeAt(location) == int_pow(2, DecExponent(location))

\* timingDataLength = ...; timingData = malloc(...) succeeds; fill_timing_data starts
SweepAlloc ==
    /\ pc = "gcl_enter"
    /\ numTests' = determine_size_of_timing_data_required(maxSize)
    /\ tdState' = "live"
    /\ currentSize' = 1
    /\ i' = 0
    /\ pc' = "gcl_fill"
    /\ UNCHANGED <<ghost, batch, callLog, minSize, maxSize, stride, timingData, targetArray,
                   jumpLocation, result, allocFailed, nullUse>>

\* the malloc fails: timingData is NULL and nothing checks it
SweepAllocFail ==
    /\ pc = "gcl_enter"
    /\ numTests' = determine_size_of_timing_data_required(maxSize)
    /\ tdState' = "null"
    /\ allocFailed' = TRUE
    /\ currentSize' = 1
    /\ i' = 0
    /\ pc' = "gcl_fill"
    /\ UNCHANGED <<ghost, batch, callLog, minSize, maxSize, stride, timingData, targetArray,
                   jumpLocation, result, nullUse>>

\* targetArray = realloc(targetArray, currentAlignment) succeeds
FillRealloc ==
    /\ pc = "gcl_fill"
    /\ currentSize < maxSize
    /\ targetArray' = "live"
    /\ pc' = "gcl_time"
    /\ UNCHANGED <<ghost, batch, callLog, minSize, maxSize, stride, currentSize, i, numTests,
                   timingData, tdState, jumpLocation, result, allocFailed, nullUse>>

\* the realloc fails: targetArray is NULL and nothing checks it
FillReallocFail ==
    /\ pc = "gcl_fill"
    /\ currentSize < maxSize
    /\ targetArray' = "null"
    /\ allocFailed' = TRUE
    /\ pc' = "gcl_time"
    /\ UNCHANGED <<ghost, batch, callLog, minSize, maxSize, stride, currentSize, i, numTests,
                   timingData, tdState, jumpLocation, result, nullUse>>

\* this step touches a null pointer: the traversal runs on a NULL buffer, or
\* the sample is written through a NULL timingData
FillTouchesNull == targetArray = "null" \/ tdState = "null"

\* timingData[i] = timed_iteration(targetArray, currentAlignment, stride);
\* currentAlignment *= 2, ++i.  On a null pointer the behaviour is undefined:
\* this is the outcome where the program runs on.
FillMeasure ==
    /\ pc = "gcl_time"
    /\ nullUse' = (nullUse \/ FillTouchesNull)
    /\ IF TraversalAsserts(currentSize)
       THEN /\ \E t \in Samples : timingData' = Append(timingData, t)
            /\ currentSize' = currentSize * 2
            /\ i' = i + 1
            /\ pc' = "gcl_fill"
       ELSE /\ pc' = "aborted"
            /\ UNCHANGED <<timingData, currentSize, i>>
    /\ UNCHANGED <<ghost, batch, callLog, minSize, maxSize, stride, numTests, tdState, targetArray,
                   jumpLocation, result, allocFailed>>

\* the other outcome of touching a null pointer: the process dies
FillCrash ==
    /\ pc = "gcl_time"
    /\ FillTouchesNull
    /\ TraversalAsserts(currentSize)
    /\ nullUse' = TRUE
    /\ pc' = "crashed"
    /\ UNCHANGED <<ghost, batch, callLog, minSize, maxSize, stride, currentSize, i, numTests,
                   timingData, tdState, targetArray, jumpLocation, result,
                   allocFailed>>

\* the sweep is over: free(targetArray)
FillDone ==
    /\ pc = "gcl_fill"
    /\ ~(currentSize < maxSize)
    /\ targetArray' = IF targetArray = "live" THEN "freed" ELSE targetArray
    /\ pc' = "gcl_scan"
    /\ UNCHANGED <<ghost, batch, callLog, minSize, maxSize, stride, currentSize, i, numTests,
                   timingData, tdState, jumpLocation, result, allocFailed, nullUse>>

\* result = get_cache_line_size_from_timing_data(timingData, timingDataLength)
SweepFindJump ==
    /\ pc = "gcl_scan"
    /\ jumpLocation' = LineScan(timingData, numTests)
    /\ result' = LineSizeAt(LineScan(timingData, numTests))
    /\ nullUse' = (nullUse \/ (tdState = "null" /\ numTests > 1))
    /\ pc' = "gcl_free"
    /\ UNCHANGED <<ghost, batch, callLog, minSize, maxSize, stride, currentSize, i, numTests,
                   timingData, tdState, targetArray, allocFailed>>

\* free(timingData); return result
SweepReturn ==
    /\ pc = "gcl_free"
    /\ tdState' = IF tdState = "live" THEN "freed" ELSE tdState
    /\ pc' = "gcl_ret"
    /\ UNCHANGED <<ghost, batch, callLog, minSize, maxSize, stride, currentSize, i, numTests,
                   timingData, targetArray, jumpLocation, result, allocFailed,
                   nullUse>>

SweepNext ==
    \/ SweepAlloc
    \/ SweepAllocFail
    \/ FillRealloc
    \/ FillReallocFail
    \/ FillMeasure
    \/ FillCrash
    \/ FillDone
    \/ SweepFindJump
    \/ SweepReturn

(***************************************************************************)
(* get_all_cache_sizes: the batch query                                    *)
(***************************************************************************)
\* unsigned int cacheLine = detect_cache_line_size(1 * 1024 * 1024): the call
AllCallLine ==
    /\ pc = "all_enter"
    /\ maxSize' = LineProbeSize
    /\ pc' = "dls_enter"
    /\ UNCHANGED <<ghost, entry, phase, cacheLine, results, callLog, minSize, stride, currentSize,
                   i, numTests, timingData, tdState, targetArray, jumpLocation,
                   result, allocFailed, nullUse>>

\* cacheLine is assigned; detect_cache_level(16 * 1024, 512 * 1024, cacheLine) is called
AllCallL1 ==
    /\ entry = "all"
    /\ pc = "dls_ret"
    /\ cacheLine' = result
    /\ phase' = 1
    /\ callLog' = Append(callLog, <<"returned", result>>)
    /\ minSize' = LevelRange[1][1]
    /\ maxSize' = LevelRange[1][2]
    /\ stride' = result
    /\ pc' = "lvl_enter"
    /\ UNCHANGED <<ghost, entry, results, currentSize, i, numTests, timingData, tdState,
                   targetArray, jumpLocation, result, allocFailed, nullUse>>

\* the next level called with the previous level's result as its stride
AllCallNextStride ==
    /\ entry = "all"
    /\ pc = "lvl_ret"
    /\ phase \in {1, 2}
    /\ results' = [results EXCEPT ![phase - 1] = result]
    /\ phase' = phase + 1
    /\ callLog' = Append(callLog, <<"returned", result>>)
    /\ minSize' = LevelRange[phase + 1][1]
    /\ maxSize' = LevelRange[phase + 1][2]
    /\ stride' = result
    /\ pc' = "lvl_enter"
    /\ UNCHANGED <<ghost, entry, cacheLine, currentSize, i, numTests, timingData, tdState,
                   targetArray, jumpLocation, result, allocFailed, nullUse>>

\* results[phase - 1] is assigned; the next detect_cache_level is called
AllCallNext ==
    /\ entry = "all"
    /\ pc = "lvl_ret"
    /\ phase \in {1, 2}
    /\ results' = [results EXCEPT ![phase - 1] = result]
    /\ phase' = phase + 1
    /\ callLog' = Append(callLog, <<"returned", result>>)
    /\ minSize' = LevelRange[phase + 1][1]
    /\ maxSize' = LevelRange[phase + 1][2]
    /\ stride' = cacheLine
    /\ pc' = "lvl_enter"
    /\ UNCHANGED <<ghost, entry, cacheLine, currentSize, i, numTests, timingData, tdState,
                   targetArray, jumpLocation, result, allocFailed, nullUse>>

\* results[2] is assigned; results[3] = cacheLine
AllReturn ==
    /\ entry = "all"
    /\ pc = "lvl_ret"
    /\ phase = 3
    /\ results' = [results EXCEPT ![2] = result, ![3] = cacheLine]
    /\ callLog' = Append(callLog, <<"returned", result>>)
    /\ pc' = "all_ret"
    /\ UNCHANGED <<ghost, entry, phase, cacheLine, minSize, maxSize, stride,
                   currentSize, i, numTests, timingData, tdState, targetArray,
                   jumpLocation, result, allocFailed, nullUse>>

AllNext ==
    \/ AllCallLine
    \/ AllCallL1
    \/ AllCallNext
    \/ AllReturn

(***************************************************************************)
(* The runs                                                                *)
(***************************************************************************)
LevelSizes == {Pow2(a) : a \in SizeExps}

\* the ranges detect_cache_level is entered with
LevelInputs ==
    {r \in LevelSizes \X LevelSizes : r[1] <= r[2] /\ r[2] \div r[1] <= Pow2(MaxSpan)}
        \cup OddRanges

InitCommon ==
    /\ phase = 0
    /\ currentSize = 0
    /\ i = 0
    /\ numTests = 0
    /\ timingData = <<>>
    /\ tdState = "none"
    /\ targetArray = "none"
    /\ jumpLocation = 0
    /\ result = -1
    /\ allocFailed = FALSE
    /\ nullUse = FALSE
    /\ cacheLine = -1
    /\ results = [k \in 0 .. 3 |-> -1]
    /\ callLog = <<>>
    /\ buffers = <<>>
    /\ stepLog = <<>>
    /\ staleRead = FALSE
    /\ touched = -1

Init ==
    /\ InitCommon
    /\ \/ /\ entry = "level"
          /\ pc = "lvl_enter"
          /\ \E r \in LevelInputs : minSize = r[1] /\ maxSize = r[2]
          /\ stride \in LevelStrides
       \/ /\ entry = "line"
          /\ pc = "gcl_enter"
          /\ minSize = 0
          /\ maxSize \in 2 .. MaxAlign
          /\ stride \in LevelStrides
       \/ /\ entry = "stride"
          /\ pc = "dls_enter"
          /\ minSize = 0
          /\ maxSize = LineProbeSize
          /\ stride = 0
       \/ /\ entry = "all"
          /\ pc = "all_enter"
          /\ minSize = 0
          /\ maxSize = 0
          /\ stride = 0

Next ==
    \/ LevelNext
    \/ StrideNext
    \/ SweepNext
    \/ AllNext

Spec == Init /\ [][Next]_vars

(***************************************************************************)
(* unsigned int: 32 bits, kept as <<high half, low half>> of 16 bits each, *)
(* so that every intermediate value stays in the range of TLC's integers.  *)
(***************************************************************************)
Limb == 65536

\* the unsigned int of a number below 2^31
U32(x) == <<x \div Limb, x % Limb>>

\* the number of an unsigned int below 2^31
U32Value(a) == a[1] * Limb + a[2]

\* (x * y) % 2^16 and (x * y) \div 2^16 of two halves, y taken a byte at a time
MulLow(x, y) == (x * (y % 256) + 256 * ((x * (y \div 256)) % 256)) % Limb

MulHigh(x, y) ==
    LET p0 == x * (y % 256)
        p1 == x * (y \div 256)
    IN (p1 \div 256) + ((p0 + 256 * (p1 % 256)) \div Limb)

\* a * b on unsigned int: the product modulo 2^32
U32Mul(a, b) ==
    <<(MulHigh(a[2], b[2]) + MulLow(a[1], b[2]) + MulLow(a[2], b[1])) % Limb,
      MulLow(a[2], b[2])>>

RECURSIVE BitAnd(_, _)
BitAnd(x, y) ==
    IF x = 0 \/ y = 0 THEN 0
    ELSE (x % 2) * (y % 2) + 2 * BitAnd(x \div 2, y \div 2)

\* a & b on unsigned int
U32And(a, b) == <<BitAnd(a[1], b[1]), BitAnd(a[2], b[2])>>

\* a <= b on unsigned int
U32Leq(a, b) == a[1] < b[1] \/ (a[1] = b[1] /\ a[2] <= b[2])

\* 2^e as an unsigned int, e < 32
U32Pow2(e) == IF e < 16 THEN <<0, Pow2(e)>> ELSE <<Pow2(e - 16), 0>>

(***************************************************************************)
(* iterate_through_data(data, dataSize, stride); maxSize holds dataSize    *)
(***************************************************************************)
\* the mask taken as dataSize itself
LengthModWhole(dataSize) == dataSize

\* unsigned int lengthMod = dataSize - 1
LengthMod(dataSize) == dataSize - 1

\* (i * stride) & lengthMod, the index of data touched in iteration iter
TouchIndex(iter, strd, dataSize) ==
    U32Value(U32And(U32Mul(U32(iter), U32(strd)), U32(LengthMod(dataSize))))

\* assert(is_power_of_two(dataSize)); assert(dataSize < steps); i = 0
TraverseAssert ==
    /\ pc = "itd_enter"
    /\ pc' = IF TraversalAsserts(maxSize) THEN "itd_loop" ELSE "aborted"
    /\ i' = 0
    /\ UNCHANGED <<buffers, stepLog, staleRead, touched, batch, callLog, minSize,
                   maxSize, stride, currentSize, numTests, timingData, tdState,
                   targetArray, jumpLocation, result, allocFailed, nullUse>>

\* the iterations followed one by one: MaxTouch from 0 and from each start
TraverseFollowed == \E s \in IterStarts \cup {0} : s <= i /\ i < s + MaxTouch

\* ++data[(i * stride) & lengthMod]; ++i
TraverseTouch ==
    /\ pc = "itd_loop"
    /\ i < steps
    /\ TraverseFollowed
    /\ touched' = TouchIndex(i, stride, maxSize)
    /\ i' = i + 1
    /\ UNCHANGED <<buffers, stepLog, staleRead, batch, callLog, pc, minSize,
                   maxSize, stride, currentSize, numTests, timingData, tdState,
                   targetArray, jumpLocation, result, allocFailed, nullUse>>

\* the loop has run on to a later iteration s: its last touch was in s - 1
TraverseRunOn ==
    /\ pc = "itd_loop"
    /\ \E s \in IterStarts :
          /\ i < s
          /\ touched' = TouchIndex(s - 1, stride, maxSize)
          /\ i' = s
    /\ UNCHANGED <<buffers, stepLog, staleRead, batch, callLog, pc, minSize,
                   maxSize, stride, currentSize, numTests, timingData, tdState,
                   targetArray, jumpLocation, result, allocFailed, nullUse>>

\* i < steps fails: the traversal returns
TraverseReturn ==
    /\ pc = "itd_loop"
    /\ ~(i < steps)
    /\ pc' = "itd_ret"
    /\ UNCHANGED <<ghost, batch, callLog, minSize, maxSize, stride, currentSize,
                   i, numTests, timingData, tdState, targetArray, jumpLocation,
                   result, allocFailed, nullUse>>

TraverseNext ==
    \/ TraverseAssert
    \/ TraverseTouch
    \/ TraverseRunOn
    \/ TraverseReturn

TraverseInit ==
    /\ InitCommon
    /\ entry = "traverse"
    /\ pc = "itd_enter"
    /\ minSize = 0
    /\ maxSize \in TraverseSizes
    /\ stride \in TraverseStrides

TraverseSpec == TraverseInit /\ [][TraverseNext]_vars

(***************************************************************************)
(* detect_cache_level: the counting loop on 32-bit unsigned int.  minSize, *)
(* maxSize and currentSize are unsigned ints <<high, low>> in these runs.  *)
(***************************************************************************)
\* numTests = 0; currentSize = minSize
WideEnter ==
    /\ pc = "wide_enter"
    /\ numTests' = 0
    /\ currentSize' = minSize
    /\ pc' = "wide_count"
    /\ UNCHANGED <<ghost, batch, callLog, minSize, maxSize, stride, i, timingData,
                   tdState, targetArray, jumpLocation, result, allocFailed, nullUse>>

\* currentSize <= maxSize: numTests++; currentSize *= 2
WideCount ==
    /\ pc = "wide_count"
    /\ U32Leq(currentSize, maxSize)
    /\ numTests < MaxCount
    /\ numTests' = numTests + 1
    /\ currentSize' = U32Mul(currentSize, U32(2))
    /\ UNCHANGED <<ghost, batch, callLog, pc, minSize, maxSize, stride, i,
                   timingData, tdState, targetArray, jumpLocation, result,
                   allocFailed, nullUse>>

\* currentSize <= maxSize fails: the loop is left
WideCountDone ==
    /\ pc = "wide_count"
    /\ ~U32Leq(currentSize, maxSize)
    /\ pc' = "wide_counted"
    /\ UNCHANGED <<ghost, batch, callLog, minSize, maxSize, stride, currentSize,
                   i, numTests, timingData, tdState, targetArray, jumpLocation,
                   result, allocFailed, nullUse>>

WideNext ==
    \/ WideEnter
    \/ WideCount
    \/ WideCountDone

WideInit ==
    /\ InitCommon
    /\ entry = "count"
    /\ pc = "wide_enter"
    /\ stride \in LevelStrides
    /\ \E a \in WideExps : \E b \in a .. 31 :
          minSize = U32Pow2(a) /\ maxSize = U32Pow2(b)

WideSpec == WideInit /\ [][WideNext]_vars

(***************************************************************************)
(* Properties                                                              *)
(***************************************************************************)
\* the adjacent delta sample[k] - sample[k-1] of a recorded sweep
Delta(td, k) == TD(td, k) - TD(td, k - 1)

DeltaIndices(td) == 1 .. Len(td) - 1

HasPositiveDelta(td) == \E k \in DeltaIndices(td) : Delta(td, k) > 0

\* the lowest index whose delta is the largest delta
FirstMaxDelta(td) ==
    CHOOSE k \in DeltaIndices(td) :
        /\ \A j \in DeltaIndices(td) : Delta(td, j) <= Delta(td, k)
        /\ \A j \in 1 .. k - 1 : Delta(td, j) < Delta(td, k)

\* detect_cache_level has returned to its caller
LevelReturned == pc = "lvl_ret"

ValidRange == is_power_of_two(minSize) /\ is_power_of_two(maxSize)

\* C1: for powers of two minSize < maxSize, detect_cache_level returns 0 when
\* an allocation failed and otherwise a value in [minSize, maxSize].
C1_LevelResultInRange ==
    (LevelReturned /\ ValidRange /\ minSize < maxSize) =>
        IF allocFailed THEN result = 0
        ELSE minSize <= result /\ result <= maxSize

\* a sweep whose biggest jump is its last delta returns maxSize / 2, and a
\* sweep without any jump, read back after the free, returns minSize
C1_Witness ==
    /\ LevelReturned /\ ValidRange /\ minSize < maxSize /\ ~allocFailed
    /\ numTests >= 3
    /\ \/ jumpLocation = numTests - 1 /\ result = maxSize \div 2
       \/ jumpLocation = 0 /\ result = minSize

\* C2: for every maxAlignment >= 2, get_cache_line returns a power of two
\* that is at most maxAlignment.
C2_LinePowerOfTwoBelowMax ==
    (entry = "line" /\ pc = "gcl_ret" /\ ~allocFailed) =>
        is_power_of_two(result) /\ result <= maxSize

\* C3: when some adjacent delta is positive, detect_cache_level returns
\* minSize * 2^(j-1), j the lowest index whose delta is the maximum delta.
C3_LevelSizeBeforeBiggestJump ==
    (LevelReturned /\ ~allocFailed /\ HasPositiveDelta(timingData)) =>
        result = minSize * Pow2(FirstMaxDelta(timingData) - 1)

\* samples 1,1,1,4 over sizes doubling from 16 KB give 64 KB
C3_Witness ==
    /\ LevelReturned /\ ~allocFailed
    /\ minSize = 16384
    /\ timingData = <<1, 1, 1, 4>>
    /\ result = 65536

\* a max-delta scan has run over the complete sweep in timingData
LevelScanned == pc \in {"lvl_freetd", "lvl_pick", "lvl_ret"} /\ ~allocFailed

LineScanned == pc \in {"gcl_free", "gcl_ret"}

\* the samples are equal before index k and strictly increase from k on
FlatThenRising(td, k) ==
    /\ k \in DeltaIndices(td)
    /\ \A j \in 1 .. k - 1 : TD(td, j) = TD(td, 0)
    /\ \A j \in k .. Len(td) - 1 : TD(td, j) > TD(td, j - 1)

\* no later increase is bigger than the one at k
BiggestRiseAt(td, k) == \A j \in k + 1 .. Len(td) - 1 : Delta(td, j) <= Delta(td, k)

\* C4 as stated: samples flat before k and strictly increasing after select
\* the jump at k, whatever the sizes of the later increases.
C4_JumpAtFirstRise ==
    (LevelScanned \/ LineScanned) =>
        \A k \in DeltaIndices(timingData) :
            FlatThenRising(timingData, k) => jumpLocation = k

\* C4 amended: samples flat before k and strictly increasing from k on select
\* the jump at k when no later increase is bigger than the increase at k.
C4_JumpAtBiggestFirstRise ==
    (LevelScanned \/ LineScanned) =>
        \A k \in DeltaIndices(timingData) :
            (FlatThenRising(timingData, k) /\ BiggestRiseAt(timingData, k))
                => jumpLocation = k

\* flat, then two increases of which the first is the bigger: the jump is at 2
C4_Witness ==
    /\ LevelScanned
    /\ Len(timingData) = 4
    /\ FlatThenRising(timingData, 2)
    /\ BiggestRiseAt(timingData, 2)
    /\ jumpLocation = 2

\* detect_cache_line_size has returned after measuring all four strides
StrideReturned == pc = "dls_ret" /\ ~allocFailed

\* C5: when some raw delta between adjacent strides is positive, the result
\* is the smaller stride of the first pair with the largest delta, whatever
\* the relative-jump pass selected.
C5_StrideBeforeBiggestJump ==
    (StrideReturned /\ HasPositiveDelta(timingData)) =>
        result = TD(candidateStrides, FirstMaxDelta(timingData) - 1)

\* timings 10,10,10,40 give 128 although the relative-jump pass selects 32
C5_Witness ==
    /\ StrideReturned
    /\ timingData = <<10, 10, 10, 40>>
    /\ result = 128
    /\ \A build \in Builds : RelativePass(build, timingData) = 32

\* C6: when no raw delta between adjacent strides is positive (flat or
\* decreasing timings), detect_cache_line_size returns the default 64, on its
\* own and as the line size of get_all_cache_sizes.
C6_NoJumpGivesDefault ==
    (StrideReturned /\ ~HasPositiveDelta(timingData)) => result = DefaultLine

\* C7: for powers of two minSize <= maxSize, detect_cache_level returns a
\* strictly positive value unless an allocation failed.
C7_LevelResultPositive ==
    (LevelReturned /\ ValidRange /\ minSize <= maxSize /\ ~allocFailed)
        => result > 0

\* the positions of detect_cache_level after its entry
LevelBody ==
    {"lvl_count", "lvl_malloc", "lvl_sweep", "lvl_warm1", "lvl_warm2",
     "lvl_measure", "lvl_freebuf", "lvl_freetd", "lvl_pick", "lvl_ret"}

\* C8: when an allocation of detect_cache_level fails, the call has returned
\* 0 at that step with as many samples as completed steps, the sample array
\* is not live and no working buffer is live.
C8_LevelAllocFailureReturnsZero ==
    (allocFailed /\ pc \in LevelBody) =>
        /\ pc = "lvl_ret"
        /\ result = 0
        /\ tdState \in {"null", "freed"}
        /\ targetArray # "live"
        /\ Len(timingData) = i

\* the working buffer of the third step cannot be allocated
C8_Witness ==
    /\ LevelReturned /\ allocFailed
    /\ i = 2
    /\ targetArray = "null"
    /\ tdState = "freed"
    /\ result = 0

\* C9: when an allocation of get_cache_line fails, no traversal runs on a
\* null buffer, no sample is written through a null array and no line size
\* is computed from the sweep.
C9_LineAllocFailureFailsFast ==
    (entry = "line" /\ allocFailed) =>
        /\ ~nullUse
        /\ pc \notin {"gcl_free", "gcl_ret"}

\* the calls get_all_cache_sizes makes with line size line, and what they returned
BatchLog(line, l1, l2, l3) ==
    << <<"detect_cache_line_size", LineProbeSize>>, <<"returned", line>>,
       <<"detect_cache_level", LevelRange[1][1], LevelRange[1][2], line>>,
       <<"returned", l1>>,
       <<"detect_cache_level", LevelRange[2][1], LevelRange[2][2], line>>,
       <<"returned", l2>>,
       <<"detect_cache_level", LevelRange[3][1], LevelRange[3][2], line>>,
       <<"returned", l3>> >>

IsPrefix(a, b) == Len(a) <= Len(b) /\ SubSeq(b, 1, Len(a)) = a

\* the value logged at position k of callLog, 0 before there is one
Got(k) == IF Len(callLog) >= k THEN callLog[k][2] ELSE 0

\* C10: get_all_cache_sizes calls the line-size estimator once and first,
\* passes its value as the stride of the L1, L2 and L3 detections, in this
\* order, and stores L1, L2, L3 and the line size in results[0..3].
C10_BatchOrder ==
    entry = "all" =>
        /\ IsPrefix(callLog, BatchLog(Got(2), Got(4), Got(6), Got(8)))
        /\ pc \in LevelBody => stride = cacheLine
        /\ pc = "all_ret" =>
              callLog = BatchLog(results[3], results[0], results[1], results[2])

\* a completed batch query whose three levels returned different values
C10_Witness ==
    /\ entry = "all"
    /\ pc = "all_ret"
    /\ results[3] = 128
    /\ results[0] # results[1]
    /\ results[1] # results[2]
    /\ results[0] # results[2]

\* the caller's range is no pair of powers of two, or is inverted
InvalidRange == ~ValidRange \/ minSize > maxSize

\* C11: called with an inverted range or a bound that is no power of two,
\* detect_cache_level ends in an assertion failure or returns the error
\* result 0, never an ordinary size estimate.
C11_InvalidRangeRejected ==
    (entry = "level" /\ LevelReturned /\ InvalidRange) => result = 0

\* what a complete sweep step at this size and index does, in order
ExpectedStep(size, index) ==
    <<StepMalloc(size), StepWarmUp(size, "live"), StepWarmUp(size, "live"),
      StepMeasure(size, "live", index), StepFree(size)>>

\* the number of events of the running step at each position inside it
StepProgress ==
    [p \in {"lvl_warm1", "lvl_warm2", "lvl_measure", "lvl_freebuf"} |->
        CASE p = "lvl_warm1"   -> 1
          [] p = "lvl_warm2"   -> 2
          [] p = "lvl_measure" -> 3
          [] p = "lvl_freebuf" -> 4]

\* C12: every sweep step of detect_cache_level allocates a buffer of the
\* current size, runs two warm-ups and one recorded measurement on it, stores
\* the sample at the step's index and frees the buffer: at most one working
\* buffer is live, and none when the call returns.
C12_SweepStepOrder ==
    pc \in LevelBody =>
        /\ Len(buffers) <= 1
        /\ pc \in DOMAIN StepProgress =>
              /\ buffers = <<currentSize>>
              /\ stepLog = SubSeq(ExpectedStep(currentSize, i), 1, StepProgress[pc])
        /\ (pc = "lvl_sweep" /\ i > 0) =>
              /\ buffers = <<>>
              /\ stepLog = ExpectedStep(currentSize \div 2, i - 1)
        /\ pc = "lvl_ret" => buffers = <<>>

\* the third step has measured on its own buffer, which is about to be freed
C12_Witness ==
    /\ pc = "lvl_freebuf"
    /\ i = 2
    /\ buffers = <<currentSize>>
    /\ Len(stepLog) = 4
    /\ stepLog[4] = StepMeasure(4 * minSize, "live", 2)

\* C14: detect_cache_level never reads timingData after free(timingData).
C14_NoReadAfterFree == ~staleRead

\* C15: for every sample sequence without a positive adjacent delta the 50%
\* scan selects no size and detect_cache_level returns maxSize / 2.
C15_NoJumpGivesHalfMax ==
    (LevelReturned /\ ~allocFailed /\ ValidRange /\ minSize <= maxSize
        /\ ~HasPositiveDelta(timingData)) => result = maxSize \div 2

\* an iteration of iterate_through_data has touched data
Touched == entry = "traverse" /\ pc \in {"itd_loop", "itd_ret"} /\ touched # -1

\* C13: for a buffer of S elements, S a power of two (S = 1 included), every
\* index iterate_through_data touches is (i * stride) & (S - 1) of the 32-bit
\* product and lies in 0 .. S - 1.
C13_TouchInsideBuffer ==
    Touched => 0 <= touched /\ touched <= maxSize - 1

\* iteration 2^26 + 1 with stride 65: the product 2^32 + 2^26 + 65 has wrapped,
\* and the index in a buffer of 2^20 elements is 65
C13_Witness ==
    /\ Touched
    /\ i = 67108866
    /\ stride = 65
    /\ maxSize = 1048576
    /\ touched = 65

\* C16: detect_cache_level terminates: the doubling loop that counts the sizes
\* of the sweep keeps changing currentSize while it runs, so for every range,
\* the ones with maxSize >= 2^31 included, it reaches a size above maxSize.
C16_CountingLoopAdvances ==
    [][(pc = "wide_count" /\ pc' = "wide_count") => currentSize' # currentSize]_vars

====
